---- MODULE Spec2Model ----
(***************************************************************************)
(* goHeadache: the interactive terminal view of the forecast table.        *)
(*                                                                         *)
(* The program is a bubbletea application: one model value `m`, an Update  *)
(* function that maps (model, message) to the next model, and a View       *)
(* function that renders the model.  The runtime calls View on the model   *)
(* returned by every Update.  One fetch command is started by Init and     *)
(* delivers one message.                                                   *)
(*                                                                         *)
(* A Go string is modelled as a sequence of one-character strings when the *)
(* code inspects it (flag values, JSON fields) and as a sequence of        *)
(* fragments when the code only emits it.  A multi-line string is a        *)
(* non-empty sequence of lines (the empty string is one empty line).       *)
(***************************************************************************)
EXTENDS Integers, Sequences, FiniteSets, TLC

VARIABLES
    m,         \* the tea.Model held by the runtime (struct model)
    lastMsg,   \* tag of the message handled by the last Update
    prev,      \* scrollPos and currentDay of the model before the last Update
    fetchCmd,  \* the command returned by Init: "running" or "done"
    quit,      \* TRUE once Update has returned tea.Quit
    osArgs,    \* one-shot program: os.Args[1:]
    proc,      \* one-shot program: position in main and its local variables
    stdout     \* one-shot program: the lines printed so far

vars == <<m, lastMsg, prev, fetchCmd, quit, osArgs, proc, stdout>>

----------------------------------------------------------------------------
(* Program constants *)

timeWidth == 8
weatherWidth == 10
tempWidth == 10
pressureWidth == 15
levelWidth == 20

LinesPerHeader == 3
extraLines == 7
MinVisibleHeight == 3
EndSentinel == 999
PageStep == 10
DefaultWidth == 80
DefaultHeight == 24
LastDayIndex == 3

(* Bounds of the model.  The stored scroll position is explored from 0 to  *)
(* MaxLowScroll (above every maxScroll plus a page) and around the end     *)
(* sentinel, from EndSentinel - MaxBelowEnd to EndSentinel + MaxAboveEnd;  *)
(* a message whose handling would store a position outside these ranges   *)
(* is not generated.                                                       *)
MaxLowScroll == 20
MaxBelowEnd == 11
MaxAboveEnd == 10

Explored(p) ==
    \/ p <= MaxLowScroll
    \/ (p >= EndSentinel - MaxBelowEnd /\ p <= EndSentinel + MaxAboveEnd)

----------------------------------------------------------------------------
(* Strings *)

Nil == "nil"
EmptyString == <<>>

UpperCase == <<"A","B","C","D","E","F","G","H","I","J","K","L","M",
               "N","O","P","Q","R","S","T","U","V","W","X","Y","Z">>
LowerCase == <<"a","b","c","d","e","f","g","h","i","j","k","l","m",
               "n","o","p","q","r","s","t","u","v","w","x","y","z">>

\* strings.ToLower on one character
ToLowerChar(c) ==
    IF \E i \in 1..26 : UpperCase[i] = c
    THEN LowerCase[CHOOSE i \in 1..26 : UpperCase[i] = c]
    ELSE c

\* strings.ToLower
ToLower(s) == [i \in 1..Len(s) |-> ToLowerChar(s[i])]

DigitChars == <<"0","1","2","3","4","5","6","7","8","9">>

IsDigit(c) == \E i \in 1..10 : DigitChars[i] = c

DigitValue(c) == (CHOOSE i \in 1..10 : DigitChars[i] = c) - 1

\* decimal spelling of a natural number
RECURSIVE IntToChars(_)
IntToChars(n) ==
    IF n < 10 THEN <<DigitChars[n + 1]>>
    ELSE IntToChars(n \div 10) \o <<DigitChars[(n % 10) + 1]>>

IsSpace(c) == c \in {" ", "\t", "\n", "\r"}

RECURSIVE TrimLeft(_)
TrimLeft(s) ==
    IF s # <<>> /\ IsSpace(Head(s)) THEN TrimLeft(Tail(s)) ELSE s

RECURSIVE TrimRight(_)
TrimRight(s) ==
    IF s # <<>> /\ IsSpace(s[Len(s)]) THEN TrimRight(SubSeq(s, 1, Len(s) - 1)) ELSE s

\* strings.TrimSpace
TrimSpace(s) == TrimRight(TrimLeft(s))

(* Multi-line strings: a non-empty sequence of lines.                      *)
EmptyText == <<EmptyString>>

\* a + b on multi-line strings
Concat(a, b) ==
    LET x == a
        y == b
    IN SubSeq(x, 1, Len(x) - 1) \o <<x[Len(x)] \o y[1]>> \o SubSeq(y, 2, Len(y))

\* strings.Join(lines, "\n")
JoinLines(lines) == IF lines = <<>> THEN EmptyText ELSE lines

\* strings.Split(s, "\n")
SplitLines(s) == s

\* a one-line string
Line(s) == <<s>>

\* "\n"
NL == <<EmptyString, EmptyString>>

----------------------------------------------------------------------------
(* The terminal styling library, at its boundary: a rendered block is the  *)
(* text between a fragment naming the style (and width) and a closing      *)
(* fragment.  Padding and margin lines are lines of their own.             *)

Render(style, s) == <<style>> \o s \o <<"/">>

RenderWidth(style, width, s) == <<style>> \o IntToChars(width) \o <<":">> \o s \o <<"/">>

PadLine(style) == <<style, "pad">>

\* errorStyle (Padding(1)): a padding line above and below the text
errorStyleRender(s) == <<PadLine("error"), Render("error", s), PadLine("error")>>

\* loadingStyle (Padding(2)) on a two-line text
loadingStyleRender(t) ==
    <<PadLine("loading"), PadLine("loading")>>
    \o [i \in 1..Len(t) |-> Render("loading", t[i])]
    \o <<PadLine("loading"), PadLine("loading")>>

\* footerStyle (Padding(1, 0))
footerStyleRender(s) == <<PadLine("footer"), Render("footer", s), PadLine("footer")>>

\* dayHeaderStyle (MarginTop(1), MarginBottom(1), Width(58))
dayHeaderStyleRender(s) == <<EmptyString, Render("dayHeader", s), EmptyString>>

\* appStyle (Padding(1, 2), rounded border) around a text
appStyleRender(t) ==
    LET x == t
    IN <<<<"border">>, PadLine("app")>>
       \o [i \in 1..Len(x) |-> Render("app", x[i])]
       \o <<PadLine("app"), <<"border">>>>

----------------------------------------------------------------------------
(* Layout engine *)

Minus == "-"
Plus == "+"
Dot == "."
Sentinel == <<"#">>
NotAvailable == <<"N", "/", "A">>

RECURSIVE AllDigits(_)
AllDigits(s) == s = <<>> \/ (IsDigit(Head(s)) /\ AllDigits(Tail(s)))

RECURSIVE DigitsValue(_)
DigitsValue(s) ==
    IF s = <<>> THEN 0 ELSE DigitsValue(SubSeq(s, 1, Len(s) - 1)) * 10 + DigitValue(s[Len(s)])

DotIndex(s) == IF \E i \in 1..Len(s) : s[i] = Dot
               THEN CHOOSE i \in 1..Len(s) : s[i] = Dot /\ \A j \in 1..(i - 1) : s[j] # Dot
               ELSE 0

Unsigned(s) == IF s # <<>> /\ Head(s) \in {Minus, Plus} THEN Tail(s) ELSE s

IntDigits(s) == LET u == Unsigned(s) d == DotIndex(u)
                IN IF d = 0 THEN u ELSE SubSeq(u, 1, d - 1)

FracDigits(s) == LET u == Unsigned(s) d == DotIndex(u)
                 IN IF d = 0 THEN <<>> ELSE SubSeq(u, d + 1, Len(u))

InfSpellings == {<<"i","n","f">>, <<"i","n","f","i","n","i","t","y">>}
NaNSpelling == <<"n","a","n">>

\* strconv's special values: an optionally signed "inf" or "infinity" and an
\* unsigned "nan", in any letter case
Special(s) ==
    IF ToLower(Unsigned(s)) \in InfSpellings THEN "Inf"
    ELSE IF ToLower(s) = NaNSpelling THEN "NaN"
    ELSE "none"

\* strconv.ParseFloat succeeds: a special value, or an optional sign, digits, an
\* optional point and digits, with at least one digit (the exponent and
\* hexadecimal spellings are not among the inputs drawn)
ParseOk(s) ==
    \/ Special(s) # "none"
    \/ /\ AllDigits(IntDigits(s))
       /\ AllDigits(FracDigits(s))
       /\ Len(IntDigits(s)) + Len(FracDigits(s)) > 0

\* parseFloat: the parsed number as sign, integer part and fraction digits, or
\* as the special value it is; 0 on a parse error
parseFloat(s) ==
    IF ParseOk(s)
    THEN IF Special(s) # "none"
         THEN [neg |-> Head(s) = Minus, int |-> 0, frac |-> <<>>, special |-> Special(s)]
         ELSE [neg |-> s # <<>> /\ Head(s) = Minus,
               int |-> DigitsValue(IntDigits(s)),
               frac |-> [i \in 1..Len(FracDigits(s)) |-> DigitValue(FracDigits(s)[i])],
               special |-> "none"]
    ELSE [neg |-> FALSE, int |-> 0, frac |-> <<>>, special |-> "none"]

\* fmt.Sprintf("%.1f", v): one fractional digit, the nearest, an exact tie to
\* the even digit (the ties drawn are those a float64 holds exactly); the
\* special values print as "+Inf", "-Inf" and "NaN"
SprintfOneDecimal(v) ==
    LET d1 == IF Len(v.frac) >= 1 THEN v.frac[1] ELSE 0
        d2 == IF Len(v.frac) >= 2 THEN v.frac[2] ELSE 0
        sticky == \E i \in 3..Len(v.frac) : v.frac[i] # 0
        up == d2 > 5 \/ (d2 = 5 /\ sticky) \/ (d2 = 5 /\ ~sticky /\ d1 % 2 = 1)
        tenths == v.int * 10 + d1 + (IF up THEN 1 ELSE 0)
    IN CASE v.special = "Inf" -> <<IF v.neg THEN Minus ELSE Plus, "I", "n", "f">>
         [] v.special = "NaN" -> <<"N", "a", "N">>
         [] OTHER -> (IF v.neg THEN <<Minus>> ELSE <<>>)
                     \o IntToChars(tenths \div 10) \o <<Dot>> \o IntToChars(tenths % 10)

\* mutant: the code for rain is read as cloud
translateWeatherCode_RainAsCloud(code) ==
    CASE code = <<"1", "0", "0">> -> <<"Sunny">>
      [] code = <<"2", "0", "0">> -> <<"Cloudy">>
      [] code = <<"3", "0", "0">> -> <<"Cloudy">>
      [] OTHER -> <<"Unknown">>

translateWeatherCode(code) ==
    CASE code = <<"1", "0", "0">> -> <<"Sunny">>
      [] code = <<"2", "0", "0">> -> <<"Cloudy">>
      [] code = <<"3", "0", "0">> -> <<"Rainy">>
      [] OTHER -> <<"Unknown">>

\* formatHourlyData: <<hour, weather, temp, pressure>>
formatHourlyData(entry) ==
    LET temp0 == IF entry.Temp = Sentinel THEN NotAvailable ELSE entry.Temp
        pressure0 == IF entry.Pressure = Sentinel THEN NotAvailable ELSE entry.Pressure
        hour0 == TrimSpace(entry.Time)
        hour == IF Len(hour0) = 1 THEN <<"0">> \o hour0 ELSE hour0
        temp == IF temp0 # NotAvailable THEN SprintfOneDecimal(parseFloat(temp0)) ELSE temp0
        pressure == IF pressure0 # NotAvailable
                    THEN SprintfOneDecimal(parseFloat(TrimSpace(pressure0)))
                    ELSE pressure0
    IN <<hour \o <<":00">>, translateWeatherCode(entry.Weather), temp, pressure>>

\* createTableHeaders: the titles line and the units line
createTableHeaders ==
    <<RenderWidth("tableHeader", timeWidth, <<"Time">>)
        \o RenderWidth("tableHeader", weatherWidth, <<"Weather">>)
        \o RenderWidth("tableHeader", tempWidth, <<"Temp">>)
        \o RenderWidth("tableHeader", pressureWidth, <<"Pressure">>)
        \o RenderWidth("tableHeader", levelWidth, <<"Pressure Level">>),
      RenderWidth("tableHeader", timeWidth, <<>>)
        \o RenderWidth("tableHeader", weatherWidth, <<>>)
        \o RenderWidth("tableHeader", tempWidth, <<"(C)">>)
        \o RenderWidth("tableHeader", pressureWidth, <<"(hPa)">>)
        \o RenderWidth("tableHeader", levelWidth, <<>>)>>

Max(a, b) == IF a > b THEN a ELSE b

\* mutant: the floor of three visible lines is missing
calculateScrollParameters_NoFloor(mm, numHeaders, numContentLines) ==
    LET headerLines == numHeaders * LinesPerHeader
        visibleHeight0 == mm.height - headerLines - extraLines
        maxScroll0 == numContentLines - visibleHeight0
    IN IF maxScroll0 < 0
       THEN <<numContentLines, 0>>
       ELSE <<visibleHeight0, maxScroll0>>

\* calculateScrollParameters: <<visibleHeight, maxScroll>>
calculateScrollParameters(mm, numHeaders, numContentLines) ==
    LET headerLines == numHeaders * LinesPerHeader
        visibleHeight0 == mm.height - headerLines - extraLines
        visibleHeight1 == IF visibleHeight0 < MinVisibleHeight
                          THEN MinVisibleHeight ELSE visibleHeight0
        maxScroll0 == numContentLines - visibleHeight1
    IN IF maxScroll0 < 0
       THEN <<numContentLines, 0>>
       ELSE <<visibleHeight1, maxScroll0>>

\* getDayData: <<dayName, dayData>>
getDayData(mm, dayIndex) ==
    CASE dayIndex = 0 -> <<<<"Yesterday">>, mm.weatherData.Yesterday>>
      [] dayIndex = 1 -> <<<<"Today">>, mm.weatherData.Today>>
      [] dayIndex = 2 -> <<<<"Tomorrow">>, mm.weatherData.Tomorrow>>
      [] dayIndex = 3 -> <<<<"Day After Tomorrow">>, mm.weatherData.DayAfterTom>>
      [] OTHER -> <<<<"Today">>, mm.weatherData.Today>>

\* one table row of extractHeadersAndContent
RenderRow(entry) ==
    LET f == formatHourlyData(entry)
    IN RenderWidth("cell", timeWidth, f[1])
       \o RenderWidth("cell", weatherWidth, f[2])
       \o RenderWidth("cell", tempWidth, f[3])
       \o RenderWidth("cell", pressureWidth, f[4])
       \o RenderWidth("cell", levelWidth, entry.PressureLevel)

\* mutant: an empty day still gets its header block
extractHeadersAndContent_NoEmptyCheck(mm, dayName, data) ==
    LET dayHeader == dayHeaderStyleRender(mm.weatherData.PlaceName \o <<" - ">> \o dayName)
        headers == Concat(Concat(dayHeader, NL), createTableHeaders)
        rows == [i \in 1..Len(data) |-> RenderRow(data[i])]
    IN <<headers, JoinLines(rows)>>

\* extractHeadersAndContent: <<headers, content>>, two multi-line strings
extractHeadersAndContent(mm, dayName, data) ==
    IF Len(data) = 0
    THEN <<EmptyText, EmptyText>>
    ELSE LET dayHeader == dayHeaderStyleRender(mm.weatherData.PlaceName \o <<" - ">> \o dayName)
             headers == Concat(Concat(dayHeader, NL), createTableHeaders)
             rows == [i \in 1..Len(data) |-> RenderRow(data[i])]
         IN <<headers, JoinLines(rows)>>

----------------------------------------------------------------------------
(* View *)

Yesterday == <<"y","e","s","t","e","r","d","a","y">>
Today == <<"t","o","d","a","y">>
Tomorrow == <<"t","o","m","o","r","r","o","w">>
DayAfter == <<"d","a","y","a","f","t","e","r">>

InvalidDayMessage ==
    <<"Invalid day specified. Please use: yesterday, today, tomorrow, or dayafter">>

MoreAbove == <<"(up arrow) More above">>
MoreBelow == <<"(down arrow) More below">>
Separator == <<" | ">>

FooterWithDays ==
    <<"(left/right): Change day  (up/down)/Mouse wheel: Scroll  PgUp/PgDn: Scroll faster  Home/End: Jump to top/bottom  q: Quit">>
FooterScrollOnly ==
    <<"(up/down)/Mouse wheel: Scroll  PgUp/PgDn: Scroll faster  Home/End: Jump to top/bottom  q: Quit">>

\* the switch on strings.ToLower(m.dayFilter): <<allHeaders, allContent>>
SelectDays(mm) ==
    LET f == ToLower(mm.dayFilter)
        one(dayName, data) ==
            LET hc == extractHeadersAndContent(mm, dayName, data)
            IN <<<<hc[1]>>, hc[2]>>
    IN CASE f = Yesterday -> one(<<"Yesterday">>, mm.weatherData.Yesterday)
         [] f = Today -> one(<<"Today">>, mm.weatherData.Today)
         [] f = Tomorrow -> one(<<"Tomorrow">>, mm.weatherData.Tomorrow)
         [] f = DayAfter -> one(<<"Day After Tomorrow">>, mm.weatherData.DayAfterTom)
         [] f = EmptyString ->
              LET d == getDayData(mm, mm.currentDay)
                  hc == extractHeadersAndContent(mm, d[1], d[2])
              IN IF hc[1] # EmptyText THEN <<<<hc[1]>>, hc[2]>> ELSE <<<<>>, EmptyText>>
         [] OTHER -> <<<<>>, errorStyleRender(InvalidDayMessage)>>

\* the loop over allHeaders, from header i on
RECURSIVE WriteHeaders(_, _, _)
WriteHeaders(allHeaders, visibleContent, i) ==
    IF i > Len(allHeaders) THEN EmptyText
    ELSE LET a == Concat(allHeaders[i], NL)
             b == IF i = Len(allHeaders) /\ visibleContent # EmptyText
                  THEN Concat(a, visibleContent) ELSE a
             c == IF i < Len(allHeaders) THEN Concat(b, Concat(NL, NL)) ELSE b
         IN Concat(c, WriteHeaders(allHeaders, visibleContent, i + 1))

\* mutant: the upper clamp is missing
ClampScroll_NoUpperClamp(scrollPos, maxScroll) ==
    IF scrollPos < 0 THEN 0 ELSE scrollPos

\* "Ensure scroll position stays within valid bounds", on View's copy of the model
ClampScroll(scrollPos, maxScroll) ==
    IF scrollPos < 0 THEN 0
    ELSE IF scrollPos > maxScroll THEN maxScroll
    ELSE scrollPos

\* mutant: "More below" is still shown at the last offset
ScrollIndicator_BelowAtBottom(scrollPos, maxScroll) ==
    LET ind1 == IF scrollPos > 0 /\ maxScroll > 0 THEN MoreAbove ELSE EmptyString
    IN IF scrollPos <= maxScroll
       THEN (IF ind1 # EmptyString THEN ind1 \o Separator ELSE ind1) \o MoreBelow
       ELSE ind1

\* "Create scroll indicators to show users there's more content"
ScrollIndicator(scrollPos, maxScroll) ==
    LET ind1 == IF scrollPos > 0 /\ maxScroll > 0 THEN MoreAbove ELSE EmptyString
    IN IF scrollPos < maxScroll
       THEN (IF ind1 # EmptyString THEN ind1 \o Separator ELSE ind1) \o MoreBelow
       ELSE ind1

\* the table path of View: its local variables and the text it builds
ViewTable(mm) ==
    LET sel == SelectDays(mm)
        allHeaders == sel[1]
        contentLines == SplitLines(sel[2])
        sp == calculateScrollParameters(mm, Len(allHeaders), Len(contentLines))
        visibleHeight == sp[1]
        maxScroll == sp[2]
        scrollPos == ClampScroll(mm.scrollPos, maxScroll)
        startPos == IF scrollPos >= Len(contentLines) /\ Len(contentLines) > 0
                    THEN Len(contentLines) - 1 ELSE scrollPos
        endIdx0 == startPos + visibleHeight
        endIdx == IF endIdx0 > Len(contentLines) THEN Len(contentLines) ELSE endIdx0
        sliced == Len(contentLines) > 0 /\ contentLines[1] # EmptyString
        visibleContentLines == IF sliced THEN SubSeq(contentLines, startPos + 1, endIdx)
                               ELSE <<>>
        visibleContent == JoinLines(visibleContentLines)
        scrollIndicator == ScrollIndicator(scrollPos, maxScroll)
        top == IF scrollIndicator # EmptyString
               THEN Concat(Line(scrollIndicator), Concat(NL, NL)) ELSE EmptyText
        footerText == IF mm.dayFilter = EmptyString THEN FooterWithDays ELSE FooterScrollOnly
        body == Concat(top, WriteHeaders(allHeaders, visibleContent, 1))
        final == Concat(body, Concat(Concat(NL, NL), footerStyleRender(footerText)))
    IN [allHeaders |-> allHeaders,
        contentLines |-> contentLines,
        visibleHeight |-> visibleHeight,
        maxScroll |-> maxScroll,
        scrollPos |-> scrollPos,
        startPos |-> startPos,
        endIdx |-> endIdx,
        sliced |-> sliced,
        visibleContentLines |-> visibleContentLines,
        scrollIndicator |-> scrollIndicator,
        out |-> appStyleRender(final)]

\* View: the rendered frame
View(mm) ==
    IF mm.err # Nil
    THEN appStyleRender(errorStyleRender(<<"Error: ", mm.err>>))
    ELSE IF mm.loading
    THEN appStyleRender(loadingStyleRender(<<<<"Loading weather data...">>, <<"Please wait">>>>))
    ELSE ViewTable(mm).out

----------------------------------------------------------------------------
(* Inputs *)

AreaCode == <<"1","3","1","0","1">>

\* values of the -day flag: absent, valid in mixed case, invalid
DayFlags == {EmptyString,
             <<"T","o","m","o","r","r","o","w">>,
             <<"n","e","x","t">>}

\* terminal sizes delivered by resize events, <<width, height>>
TermSizes == {<<80, 24>>, <<60, 16>>, <<40, 5>>}

WeatherCodes == <<<<"1","0","0">>, <<"2","0","0">>, <<"3","0","0">>, <<"9","9","9">>>>

\* the i-th hourly entry of a day as the parse step delivers it
HourlyEntry(i) ==
    [Time |-> IntToChars(i - 1),
     Weather |-> WeatherCodes[(i % 4) + 1],
     Temp |-> IF i % 8 = 1 THEN <<"2","3",".","4","5","6">> ELSE Sentinel,
     Pressure |-> IF i % 8 = 2 THEN <<"1","0","1","3",".","2">> ELSE Sentinel,
     PressureLevel |-> IntToChars(i % 5)]

HourlySeries(n) == [i \in 1..n |-> HourlyEntry(i)]

Forecast(place, y, t, tm, da) ==
    [PlaceName |-> place, PlaceID |-> AreaCode, PrefecturesID |-> <<"1","3">>,
     DateTime |-> <<"2","0","2","5">>,
     Yesterday |-> HourlySeries(y), Today |-> HourlySeries(t),
     Tomorrow |-> HourlySeries(tm), DayAfterTom |-> HourlySeries(da)]

\* forecasts the fetch can deliver: one with tomorrow absent, and one with
\* yesterday absent and a long tomorrow
ForecastSets == {Forecast(<<"Chiyoda">>, 3, 8, 0, 5),
                 Forecast(<<"Chiyoda">>, 0, 2, 12, 8)}

FetchErrors == {"error making GET request"}

\* the zero value WeatherData{}
NoWeatherData ==
    [PlaceName |-> EmptyString, PlaceID |-> EmptyString, PrefecturesID |-> EmptyString,
     DateTime |-> EmptyString,
     Yesterday |-> <<>>, Today |-> <<>>, Tomorrow |-> <<>>, DayAfterTom |-> <<>>]

Keys == {"q", "ctrl+c", "up", "k", "down", "j", "left", "h", "right", "l",
         "home", "end", "pageup", "pagedown", "x"}

MouseButtons == {"MouseButtonWheelUp", "MouseButtonWheelDown", "MouseButtonLeft"}

----------------------------------------------------------------------------
(* initialModel and Update *)

initialModel(areaCode, dayFilter) ==
    LET f == ToLower(dayFilter)
        currentDay == IF dayFilter # EmptyString
                      THEN CASE f = Yesterday -> 0
                             [] f = Today -> 1
                             [] f = Tomorrow -> 2
                             [] f = DayAfter -> 3
                             [] OTHER -> 1
                      ELSE 1
    IN [weatherData |-> NoWeatherData,
        dayFilter |-> dayFilter,
        areaCode |-> areaCode,
        loading |-> TRUE,
        err |-> Nil,
        scrollPos |-> 0,
        currentDay |-> currentDay,
        width |-> DefaultWidth,
        height |-> DefaultHeight]

\* mutant: a resize also returns to the top
UpdateWindowSize_ResetsScroll(mm, msg) ==
    [mm EXCEPT !.width = msg.Width, !.height = msg.Height, !.scrollPos = 0]

\* case tea.WindowSizeMsg
UpdateWindowSize(mm, msg) == [mm EXCEPT !.width = msg.Width, !.height = msg.Height]

\* wheel up, and "up", "k"
ScrollUp(mm) == IF mm.scrollPos > 0 THEN [mm EXCEPT !.scrollPos = @ - 1] ELSE mm

\* wheel down
WheelDown(mm) == [mm EXCEPT !.scrollPos = @ + 1]

\* case tea.MouseMsg
UpdateMouse(mm, msg) ==
    IF msg.Button = "MouseButtonWheelUp" THEN ScrollUp(mm)
    ELSE IF msg.Button = "MouseButtonWheelDown" THEN WheelDown(mm)
    ELSE mm

\* mutant: the down key always consults today's rows
KeyDownMaxScroll_Today(mm) ==
    LET dayData == mm.weatherData.Today
        numContentLines == IF Len(dayData) > 0 THEN Len(dayData) ELSE 0
    IN calculateScrollParameters(mm, 1, numContentLines)[2]

\* "down", "j": the maxScroll the key computes
KeyDownMaxScroll(mm) ==
    LET dayData == getDayData(mm, mm.currentDay)[2]
        numContentLines == IF Len(dayData) > 0 THEN Len(dayData) ELSE 0
    IN calculateScrollParameters(mm, 1, numContentLines)[2]

\* "down", "j"
KeyDown(mm) ==
    LET maxScroll == KeyDownMaxScroll(mm)
    IN IF mm.scrollPos < maxScroll THEN [mm EXCEPT !.scrollPos = @ + 1] ELSE mm

\* mutant: the scroll position survives a day change
KeyLeft_KeepsScroll(mm) ==
    IF mm.dayFilter = EmptyString /\ mm.currentDay > 0
    THEN [mm EXCEPT !.currentDay = @ - 1]
    ELSE mm

\* "left", "h"
KeyLeft(mm) ==
    IF mm.dayFilter = EmptyString /\ mm.currentDay > 0
    THEN [mm EXCEPT !.currentDay = @ - 1, !.scrollPos = 0]
    ELSE mm

\* mutant: the last day is not a stop
KeyRight_OffByOne(mm) ==
    IF mm.dayFilter = EmptyString /\ mm.currentDay <= LastDayIndex
    THEN [mm EXCEPT !.currentDay = @ + 1, !.scrollPos = 0]
    ELSE mm

\* mutant: the day filter is not consulted
KeyRight_IgnoresFilter(mm) ==
    IF mm.currentDay < LastDayIndex
    THEN [mm EXCEPT !.currentDay = @ + 1, !.scrollPos = 0]
    ELSE mm

\* "right", "l"
KeyRight(mm) ==
    IF mm.dayFilter = EmptyString /\ mm.currentDay < LastDayIndex
    THEN [mm EXCEPT !.currentDay = @ + 1, !.scrollPos = 0]
    ELSE mm

\* "home"
KeyHome(mm) == [mm EXCEPT !.scrollPos = 0]

\* "end"
KeyEnd(mm) == [mm EXCEPT !.scrollPos = EndSentinel]

\* mutant: page-up subtracts without a floor
KeyPageUp_NoFloor(mm) == [mm EXCEPT !.scrollPos = @ - PageStep]

\* "pageup"
KeyPageUp(mm) ==
    LET p == mm.scrollPos - PageStep
    IN [mm EXCEPT !.scrollPos = IF p < 0 THEN 0 ELSE p]

\* "pagedown"
KeyPageDown(mm) == [mm EXCEPT !.scrollPos = @ + PageStep]

\* case tea.KeyMsg: the model returned (tea.Quit is returned for "q", "ctrl+c")
UpdateKey(mm, msg) ==
    CASE msg.key \in {"q", "ctrl+c"} -> mm
      [] msg.key \in {"up", "k"} -> ScrollUp(mm)
      [] msg.key \in {"down", "j"} -> KeyDown(mm)
      [] msg.key \in {"left", "h"} -> KeyLeft(mm)
      [] msg.key \in {"right", "l"} -> KeyRight(mm)
      [] msg.key = "home" -> KeyHome(mm)
      [] msg.key = "end" -> KeyEnd(mm)
      [] msg.key = "pageup" -> KeyPageUp(mm)
      [] msg.key = "pagedown" -> KeyPageDown(mm)
      [] OTHER -> mm

\* mutant: a delivered forecast also restores the initial terminal size
UpdateFetchSuccess_ResetsSize(mm, msg) ==
    [mm EXCEPT !.weatherData = msg.weatherData, !.loading = FALSE,
               !.width = DefaultWidth, !.height = DefaultHeight]

\* mutant: the loading flag survives a delivered forecast
UpdateFetchSuccess_KeepsLoading(mm, msg) == [mm EXCEPT !.weatherData = msg.weatherData]

\* case fetchSuccessMsg
UpdateFetchSuccess(mm, msg) == [mm EXCEPT !.weatherData = msg.weatherData, !.loading = FALSE]

\* mutant: the loading flag survives a failed fetch
UpdateFetchError_KeepsLoading(mm, msg) == [mm EXCEPT !.err = msg.err]

\* case fetchErrorMsg
UpdateFetchError(mm, msg) == [mm EXCEPT !.err = msg.err, !.loading = FALSE]

\* Update: the model it returns
Update(mm, msg) ==
    CASE msg.type = "WindowSizeMsg" -> UpdateWindowSize(mm, msg)
      [] msg.type = "MouseMsg" -> UpdateMouse(mm, msg)
      [] msg.type = "KeyMsg" -> UpdateKey(mm, msg)
      [] msg.type = "fetchSuccessMsg" -> UpdateFetchSuccess(mm, msg)
      [] msg.type = "fetchErrorMsg" -> UpdateFetchError(mm, msg)
      [] OTHER -> mm

\* mutant: ctrl+c does not quit
UpdateQuits_OnlyQ(msg) == msg.type = "KeyMsg" /\ msg.key = "q"

\* Update: whether the command it returns is tea.Quit
UpdateQuits(msg) == msg.type = "KeyMsg" /\ msg.key \in {"q", "ctrl+c"}

----------------------------------------------------------------------------
(* The program: the runtime hands each message to Update and renders the   *)
(* model it returns.                                                       *)

Scalars(mm) == [scrollPos |-> mm.scrollPos, currentDay |-> mm.currentDay]

MsgTag(msg) ==
    [type |-> msg.type,
     arg |-> IF msg.type = "KeyMsg" THEN msg.key
             ELSE IF msg.type = "MouseMsg" THEN msg.Button ELSE ""]

KeyMsg(k) == [type |-> "KeyMsg", key |-> k]
MouseMsg(b) == [type |-> "MouseMsg", Button |-> b]

\* the frame on the terminal
frame == View(m)

\* the one-shot program is not the one running
NotStarted == [pc |-> "none"]

Init ==
    /\ \E flag \in DayFlags : m = initialModel(AreaCode, flag)
    /\ lastMsg = [type |-> "none", arg |-> ""]
    /\ prev = Scalars(m)
    /\ fetchCmd = "running"
    /\ quit = FALSE
    /\ osArgs = <<>>
    /\ proc = NotStarted
    /\ stdout = <<>>

Dispatch(msg) ==
    /\ ~quit
    /\ Explored(Update(m, msg).scrollPos)
    /\ m' = Update(m, msg)
    /\ lastMsg' = MsgTag(msg)
    /\ prev' = Scalars(m)
    /\ quit' = UpdateQuits(msg)
    /\ UNCHANGED <<osArgs, proc, stdout>>

Resize ==
    /\ \E s \in TermSizes : Dispatch([type |-> "WindowSizeMsg", Width |-> s[1], Height |-> s[2]])
    /\ UNCHANGED fetchCmd

Mouse ==
    /\ \E b \in MouseButtons : Dispatch(MouseMsg(b))
    /\ UNCHANGED fetchCmd

Key ==
    /\ \E k \in Keys : Dispatch(KeyMsg(k))
    /\ UNCHANGED fetchCmd

FetchSucceeded ==
    /\ fetchCmd = "running"
    /\ \E d \in ForecastSets : Dispatch([type |-> "fetchSuccessMsg", weatherData |-> d])
    /\ fetchCmd' = "done"

FetchFailed ==
    /\ fetchCmd = "running"
    /\ \E e \in FetchErrors : Dispatch([type |-> "fetchErrorMsg", err |-> e])
    /\ fetchCmd' = "done"

Next == Resize \/ Mouse \/ Key \/ FetchSucceeded \/ FetchFailed

Spec == Init /\ [][Next]_vars

(* The same program under wider terminal heights and row counts and fewer  *)
(* keys: every height from 0 to MaxHeight, a forecast whose Today has 0 to *)
(* MaxRows rows, and the keys that jump to the top and to the end.         *)
MaxHeight == 26
MaxRows == 26

ScrollKeys == {"end", "home"}

InitScroll ==
    /\ m = initialModel(AreaCode, EmptyString)
    /\ lastMsg = [type |-> "none", arg |-> ""]
    /\ prev = Scalars(m)
    /\ fetchCmd = "running"
    /\ quit = FALSE
    /\ osArgs = <<>>
    /\ proc = NotStarted
    /\ stdout = <<>>

ResizeAny ==
    /\ \E h \in 0..MaxHeight :
          Dispatch([type |-> "WindowSizeMsg", Width |-> DefaultWidth, Height |-> h])
    /\ UNCHANGED fetchCmd

ScrollKey ==
    /\ \E k \in ScrollKeys : Dispatch(KeyMsg(k))
    /\ UNCHANGED fetchCmd

FetchSucceededAny ==
    /\ fetchCmd = "running"
    /\ \E n \in 0..MaxRows :
          Dispatch([type |-> "fetchSuccessMsg",
                    weatherData |-> Forecast(<<"Chiyoda">>, 0, n, 0, 0)])
    /\ fetchCmd' = "done"

NextScroll == ResizeAny \/ ScrollKey \/ FetchSucceededAny

SpecScroll == InitScroll /\ [][NextScroll]_vars

(* The same program again, the forecast's Today having MaxRows rows or     *)
(* LongRows rows: more rows than the scroll position the "end" key stores. *)
LongRows == 1003

FetchSucceededLong ==
    /\ fetchCmd = "running"
    /\ \E n \in {MaxRows, LongRows} :
          Dispatch([type |-> "fetchSuccessMsg",
                    weatherData |-> Forecast(<<"Chiyoda">>, 0, n, 0, 0)])
    /\ fetchCmd' = "done"

NextLong == ResizeAny \/ ScrollKey \/ FetchSucceededLong

SpecLong == InitScroll /\ [][NextLong]_vars

(* The same program under every height from 0 to MaxHeight, a forecast     *)
(* whose Today is empty, shorter than three rows, or longer than the       *)
(* window, and the keys that scroll by one row, by a page and to the ends. *)
SliceKeys == {"up", "down", "pageup", "pagedown", "home", "end"}

SliceRows == {0, 2, 12}

SliceKey ==
    /\ \E k \in SliceKeys : Dispatch(KeyMsg(k))
    /\ UNCHANGED fetchCmd

FetchSucceededSlice ==
    /\ fetchCmd = "running"
    /\ \E n \in SliceRows :
          Dispatch([type |-> "fetchSuccessMsg",
                    weatherData |-> Forecast(<<"Chiyoda">>, 0, n, 0, 0)])
    /\ fetchCmd' = "done"

NextSlice == ResizeAny \/ SliceKey \/ FetchSucceededSlice

SpecSlice == InitScroll /\ [][NextSlice]_vars

(* The same program under the hourly entries the layout engine can be      *)
(* handed: a forecast whose Today has one entry, its fields drawn from the *)
(* samples below.                                                          *)

\* hours: one digit, two digits, padded with spaces, empty
SampleTimes == {<<"9">>, <<"1","2">>, <<" ","7"," ">>, EmptyString}

\* weather codes: the three known ones, an unknown one, the empty one, and
\* ones that extend or abbreviate a known one
SampleCodes == {<<"1","0","0">>, <<"2","0","0">>, <<"3","0","0">>, <<"9","9","9">>,
                EmptyString, <<"1","0","0","0">>, <<"3","0">>}

\* numeric fields: the sentinel, decimals, integers, a negative, exact ties,
\* text, the empty string, padded values and the special values
SampleNumbers == {Sentinel,
                  <<"2","3",".","4","5","6">>,
                  <<"1","0","1","3",".","2">>,
                  <<"-","0",".","0","4">>,
                  <<"1","2">>,
                  <<"0",".","2","5">>,
                  <<"9",".","9","6">>,
                  <<"a","b","c">>,
                  EmptyString,
                  <<" ","5",".","1"," ">>,
                  <<" ","#">>,
                  <<"N","a","N">>,
                  <<"+","I","n","f">>}

SamplePressures == {Sentinel, <<"1","0","1","3",".","2","5">>, <<" ","5",".","1"," ">>,
                    <<"a","b","c">>, <<"-","i","n","f">>}

SampleEntry(time, code, temp, pressure) ==
    [Time |-> time, Weather |-> code, Temp |-> temp, Pressure |-> pressure,
     PressureLevel |-> <<"3">>]

FetchSucceededEntry ==
    /\ fetchCmd = "running"
    /\ \E time \in SampleTimes, code \in SampleCodes,
          temp \in SampleNumbers, pressure \in SamplePressures :
          Dispatch([type |-> "fetchSuccessMsg",
                    weatherData |-> [NoWeatherData EXCEPT
                        !.Today = <<SampleEntry(time, code, temp, pressure)>>]])
    /\ fetchCmd' = "done"

NextFormat == FetchSucceededEntry \/ ScrollKey

SpecFormat == InitScroll /\ [][NextFormat]_vars

----------------------------------------------------------------------------
(* The one-shot program: main separates the area code from the flags,      *)
(* parses the flags, fetches and parses the forecast, and prints the day   *)
(* sections the -day flag selects.  A printed line is a sequence of        *)
(* fragments; a tab is the fragment "\t".                                  *)

DayFlagName == <<"-","d","a","y">>

Tab == "\t"

\* strings.HasPrefix(arg, "-")
HasDashPrefix(arg) == arg # <<>> /\ Head(arg) = Minus

\* "Separate area code from flags": <<areaCode, args>>
RECURSIVE SeparateAreaCode(_, _, _)
SeparateAreaCode(rest, areaCode, args) ==
    IF rest = <<>> THEN <<areaCode, args>>
    ELSE IF ~HasDashPrefix(Head(rest)) /\ areaCode = EmptyString
    THEN SeparateAreaCode(Tail(rest), Head(rest), args)
    ELSE SeparateAreaCode(Tail(rest), areaCode, Append(args, Head(rest)))

\* fs.Parse(args) with the one flag -day: the flag's value, or a failure when
\* -day has no value or another flag is given (the "-day=value" and "--day"
\* spellings are not among the command lines drawn); parsing stops at the
\* first argument that is not a flag
RECURSIVE ParseFlags(_, _)
ParseFlags(args, day) ==
    IF args = <<>> \/ ~HasDashPrefix(Head(args)) \/ Len(Head(args)) < 2
    THEN [ok |-> TRUE, day |-> day]
    ELSE IF Head(args) # DayFlagName THEN [ok |-> FALSE, day |-> day]
    ELSE IF Len(args) < 2 THEN [ok |-> FALSE, day |-> day]
    ELSE ParseFlags(SubSeq(args, 3, Len(args)), args[2])

TableHeaderLine ==
    <<"Time", Tab, "Weather", Tab, "Temp (C)", Tab, "Pressure (hPa)", Tab, "Pressure Level">>

\* the row displayHourlyData writes for an entry
DisplayRow(entry) ==
    LET temp == IF entry.Temp = Sentinel THEN NotAvailable ELSE entry.Temp
        pressure == IF entry.Pressure = Sentinel THEN NotAvailable ELSE entry.Pressure
    IN entry.Time \o <<":00", Tab>> \o translateWeatherCode(entry.Weather) \o <<Tab>>
       \o temp \o <<Tab>> \o pressure \o <<Tab>> \o entry.PressureLevel

\* displayHourlyData: the lines it prints
displayHourlyData(dayName, data) ==
    <<EmptyString, dayName \o <<":">>, TableHeaderLine>>
    \o [i \in 1..Len(data) |-> DisplayRow(data[i])]

InvalidDayLine ==
    <<"Invalid day specified. Please use: yesterday, today, tomorrow, or dayafter">>

\* "Display data based on the day flag"
PrintDays(dayFlag, weatherData) ==
    LET f == ToLower(dayFlag)
    IN CASE f = Yesterday -> displayHourlyData(<<"Yesterday">>, weatherData.Yesterday)
         [] f = Today -> displayHourlyData(<<"Today">>, weatherData.Today)
         [] f = Tomorrow -> displayHourlyData(<<"Tomorrow">>, weatherData.Tomorrow)
         [] f = DayAfter -> displayHourlyData(<<"Day After Tomorrow">>, weatherData.DayAfterTom)
         [] f = EmptyString ->
              displayHourlyData(<<"Yesterday">>, weatherData.Yesterday)
              \o displayHourlyData(<<"Today">>, weatherData.Today)
              \o displayHourlyData(<<"Tomorrow">>, weatherData.Tomorrow)
              \o displayHourlyData(<<"Day After Tomorrow">>, weatherData.DayAfterTom)
         [] OTHER -> <<InvalidDayLine>>

UsageLines ==
    <<<<"Usage: goHeadache [-day <day>] <area_code>">>,
      <<"  or:  goHeadache <area_code> [-day <day>]">>>>

\* command lines (os.Args[1:]): none, the area code alone, the area code and
\* then -day with a valid value in several letter cases, with an invalid value
\* and with the empty value, -day and its value before the area code, and
\* -day without a value
CommandLines ==
    {<<>>,
     <<AreaCode>>,
     <<AreaCode, DayFlagName, <<"y","e","s","t","e","r","d","a","y">>>>,
     <<AreaCode, DayFlagName, <<"t","o","d","a","y">>>>,
     <<AreaCode, DayFlagName, <<"T","o","m","o","r","r","o","w">>>>,
     <<AreaCode, DayFlagName, <<"D","A","Y","A","F","T","E","R">>>>,
     <<AreaCode, DayFlagName, <<"n","e","x","t">>>>,
     <<AreaCode, DayFlagName, EmptyString>>,
     <<DayFlagName, <<"t","o","d","a","y">>, AreaCode>>,
     <<DayFlagName, <<"D","A","Y","A","F","T","E","R">>, AreaCode>>,
     <<AreaCode, DayFlagName>>}

\* forecasts the one-shot fetch can deliver: every day empty or not
OneShotForecasts ==
    {Forecast(<<"Chiyoda">>, y, t, tm, da) :
        y \in {0, 2}, t \in {0, 3}, tm \in {0, 1}, da \in {0, 2}}

InitOneShot ==
    /\ m = initialModel(EmptyString, EmptyString)
    /\ lastMsg = [type |-> "none", arg |-> ""]
    /\ prev = Scalars(m)
    /\ fetchCmd = "none"
    /\ quit = FALSE
    /\ osArgs \in CommandLines
    /\ proc = [pc |-> "args"]
    /\ stdout = <<>>

\* main up to "Validate we have an area code"
ParseArgs ==
    /\ proc.pc = "args"
    /\ LET sep == SeparateAreaCode(osArgs, EmptyString, <<>>)
           flags == ParseFlags(sep[2], EmptyString)
       IN IF Len(osArgs) < 1
          THEN proc' = [pc |-> "returned"] /\ stdout' = stdout \o UsageLines
          ELSE IF ~flags.ok
          THEN proc' = [pc |-> "exited"] /\ stdout' = stdout
          ELSE IF sep[1] = EmptyString
          THEN /\ proc' = [pc |-> "returned"]
               /\ stdout' = Append(stdout, <<"Error: Area code is required">>)
          ELSE /\ proc' = [pc |-> "fetch", areaCode |-> sep[1], dayFlag |-> flags.day]
               /\ stdout' = stdout
    /\ UNCHANGED <<m, lastMsg, prev, fetchCmd, quit, osArgs>>

\* the GET request, the read and the parse succeed
OneShotFetched ==
    /\ proc.pc = "fetch"
    /\ \E d \in OneShotForecasts :
          proc' = [pc |-> "display", areaCode |-> proc.areaCode,
                   dayFlag |-> proc.dayFlag, weatherData |-> d]
    /\ UNCHANGED <<m, lastMsg, prev, fetchCmd, quit, osArgs, stdout>>

\* the GET request, the read or the parse fails
OneShotFetchFailed ==
    /\ proc.pc = "fetch"
    /\ \E e \in FetchErrors :
          /\ stdout' = Append(stdout, <<"Error ", e>>)
          /\ proc' = [pc |-> "returned"]
    /\ UNCHANGED <<m, lastMsg, prev, fetchCmd, quit, osArgs>>

\* "Display formatted weather data"
Display ==
    /\ proc.pc = "display"
    /\ stdout' = stdout
                 \o <<<<"Weather Report for ">> \o proc.weatherData.PlaceName,
                      <<"--------------------------------------------">>>>
                 \o PrintDays(proc.dayFlag, proc.weatherData)
    /\ proc' = [proc EXCEPT !.pc = "displayed"]
    /\ UNCHANGED <<m, lastMsg, prev, fetchCmd, quit, osArgs>>

NextOneShot == ParseArgs \/ OneShotFetched \/ OneShotFetchFailed \/ Display

SpecOneShot == InitOneShot /\ [][NextOneShot]_vars

----------------------------------------------------------------------------
(* Properties *)

\* the model shows a table frame: data has arrived and no error is stored
TableShown == m.err = Nil /\ ~m.loading

IsKey(tag, keys) == tag.type = "KeyMsg" /\ tag.arg \in keys

DayKeys == {"left", "h", "right", "l"}

\* the number of hourly rows of the day the frame is about
ActiveRowCount(mm) ==
    LET f == ToLower(mm.dayFilter)
    IN CASE f = Yesterday -> Len(mm.weatherData.Yesterday)
         [] f = Today -> Len(mm.weatherData.Today)
         [] f = Tomorrow -> Len(mm.weatherData.Tomorrow)
         [] f = DayAfter -> Len(mm.weatherData.DayAfterTom)
         [] f = EmptyString /\ mm.currentDay = 0 -> Len(mm.weatherData.Yesterday)
         [] f = EmptyString /\ mm.currentDay = 1 -> Len(mm.weatherData.Today)
         [] f = EmptyString /\ mm.currentDay = 2 -> Len(mm.weatherData.Tomorrow)
         [] f = EmptyString /\ mm.currentDay = 3 -> Len(mm.weatherData.DayAfterTom)
         [] OTHER -> 0

\* maxScroll as the specification states it, for one day header
StatedVisibleHeight(height, headerCount) == Max(3, height - 3 * headerCount - 7)
StatedMaxScroll(height, headerCount, rowCount) ==
    Max(0, rowCount - StatedVisibleHeight(height, headerCount))

\* C1: in every table frame the offset View slices the rows with and computes
\* the indicators from lies in [0, maxScroll], maxScroll = max(0, rowCount -
\* visibleHeight) for the current terminal height and the active day's rows.
C1_RenderedOffsetWithinBounds ==
    TableShown =>
        LET v == ViewTable(m)
            bound == StatedMaxScroll(m.height, 1, ActiveRowCount(m))
        IN /\ 0 <= v.scrollPos /\ v.scrollPos <= bound
           /\ 0 <= v.startPos /\ v.startPos <= bound

\* C1 witness: End has stored the sentinel and the frame shows offset 6 of
\* 12 rows in a terminal 16 lines high
C1_Witness ==
    /\ TableShown
    /\ IsKey(lastMsg, {"end"})
    /\ m.scrollPos = EndSentinel
    /\ m.height = 16 /\ ActiveRowCount(m) = 12
    /\ ViewTable(m).scrollPos = 6 /\ ViewTable(m).startPos = 6

\* C2 (as claimed): whenever a table frame has been rendered, the stored
\* scrollPos that later events act on lies in [0, maxScroll] of that frame.
C2_StoredOffsetWithinBounds ==
    TableShown => (0 <= m.scrollPos /\ m.scrollPos <= ViewTable(m).maxScroll)

\* C3: with no day filter currentDay stays in [0,3], and left at day 0 and
\* right at day 3 leave the whole model unchanged.
C3_DayIndexBounded ==
    [][m.dayFilter = EmptyString =>
          /\ m.currentDay \in 0..3 /\ m'.currentDay \in 0..3
          /\ (IsKey(lastMsg', {"left", "h"}) /\ m.currentDay = 0) => m' = m
          /\ (IsKey(lastMsg', {"right", "l"}) /\ m.currentDay = 3) => m' = m]_vars

\* C3 witness: a left key at day 0 has left a non-zero scroll position and the
\* day as they were
C3_Witness ==
    /\ m.dayFilter = EmptyString
    /\ IsKey(lastMsg, {"left", "h"})
    /\ prev.currentDay = 0 /\ m.currentDay = 0
    /\ prev.scrollPos > 0 /\ m.scrollPos = prev.scrollPos

\* C4: a left or right key that changes currentDay leaves scrollPos = 0.
C4_DayChangeResetsScroll ==
    (IsKey(lastMsg, DayKeys) /\ m.currentDay # prev.currentDay) => m.scrollPos = 0

\* C4 witness: the day changed while the end sentinel was stored
C4_Witness ==
    /\ IsKey(lastMsg, DayKeys)
    /\ m.currentDay # prev.currentDay
    /\ prev.scrollPos = EndSentinel
    /\ m.scrollPos = 0

\* C5: with a day filter set, valid or not, left/h and right/l change no field
\* of the model, and currentDay never changes.
C5_FilterDisablesDayKeys ==
    [][m.dayFilter # EmptyString =>
          /\ m'.currentDay = m.currentDay
          /\ IsKey(lastMsg', DayKeys) => m' = m]_vars

\* C5 witness: a right key handled under a filter, with a table shown and a
\* scroll position that a day change would have reset
C5_Witness ==
    /\ m.dayFilter # EmptyString
    /\ IsKey(lastMsg, {"right", "l"})
    /\ TableShown
    /\ m.scrollPos > 0 /\ m.scrollPos = prev.scrollPos

\* C7: for every height, header count and row count the scroll parameters are
\* visibleHeight = max(3, height - 3*headerCount - 7), lowered to rowCount when
\* the rows fit, and maxScroll = max(0, rowCount - visibleHeight); View uses
\* them for the day shown; 24 rows of Today in a terminal 24 lines high give
\* 14 and 10, and End then shows offset 10.
C7_ScrollParameters ==
    /\ \A hc \in 0..2 : \A r \in 0..MaxRows :
          LET svh == StatedVisibleHeight(m.height, hc)
          IN calculateScrollParameters(m, hc, r) =
                <<IF r <= svh THEN r ELSE svh, StatedMaxScroll(m.height, hc, r)>>
    /\ (TableShown /\ ActiveRowCount(m) > 0) =>
          LET v == ViewTable(m)
              svh == StatedVisibleHeight(m.height, 1)
              r == ActiveRowCount(m)
          IN /\ v.visibleHeight = (IF r <= svh THEN r ELSE svh)
             /\ v.maxScroll = StatedMaxScroll(m.height, 1, r)
    /\ (TableShown /\ m.dayFilter = EmptyString /\ m.currentDay = 1
          /\ m.height = 24 /\ Len(m.weatherData.Today) = 24) =>
          LET v == ViewTable(m)
          IN /\ v.visibleHeight = 14
             /\ v.maxScroll = 10
             /\ IsKey(lastMsg, {"end"}) => (m.scrollPos = EndSentinel /\ v.scrollPos = 10)

\* C7 witness: the scenario, End pressed
C7_Witness ==
    /\ TableShown /\ m.dayFilter = EmptyString /\ m.currentDay = 1
    /\ m.height = 24 /\ Len(m.weatherData.Today) = 24
    /\ IsKey(lastMsg, {"end"})
    /\ ViewTable(m).visibleHeight = 14
    /\ ViewTable(m).maxScroll = 10
    /\ ViewTable(m).scrollPos = 10

\* the frame View returns for a stored error
ErrorFrame(e) == appStyleRender(errorStyleRender(<<"Error: ", e>>))

\* a line of the text holds the fragment
Contains(text, fragment) ==
    \E i \in 1..Len(text) : \E j \in 1..Len(text[i]) : text[i][j] = fragment

\* C8: once an error is stored no message clears it or sets loading again, and
\* every later frame is the error block of that error: no table, no loading
\* placeholder.
C8_ErrorIsTerminal ==
    [][m.err # Nil =>
          /\ m'.err = m.err
          /\ ~m'.loading
          /\ LET f == View(m')
             IN /\ f = ErrorFrame(m.err)
                /\ ~Contains(f, "Loading weather data...")
                /\ ~Contains(f, FooterWithDays[1])
                /\ ~Contains(f, FooterScrollOnly[1])]_vars

\* C8 witness: End was handled after the fetch failed, and the error frame is
\* still shown
C8_Witness ==
    /\ m.err # Nil
    /\ fetchCmd = "done"
    /\ IsKey(lastMsg, {"end"})
    /\ m.scrollPos = EndSentinel
    /\ frame = ErrorFrame(m.err)

InvalidFilter(mm) ==
    ToLower(mm.dayFilter) \notin {EmptyString, Yesterday, Today, Tomorrow, DayAfter}

\* C9 (as claimed): with an invalid -day value the frame rendered once data has
\* loaded holds the literal invalid-day message.
C9_InvalidDayMessageShown ==
    (TableShown /\ InvalidFilter(m)) => Contains(frame, InvalidDayMessage[1])

\* C10: an empty day yields an empty header and empty content; selected by
\* the day filter it renders no header block and no rows, only the footer,
\* with offset 0 and no scroll indicator, whatever the stored scroll position.
C10_EmptyDayFrame ==
    /\ extractHeadersAndContent(m, <<"Tomorrow">>, <<>>) = <<EmptyText, EmptyText>>
    /\ (TableShown /\ ToLower(m.dayFilter) = Tomorrow /\ Len(m.weatherData.Tomorrow) = 0) =>
          LET v == ViewTable(m)
          IN /\ extractHeadersAndContent(m, <<"Tomorrow">>, m.weatherData.Tomorrow)
                   = <<EmptyText, EmptyText>>
             /\ v.allHeaders = <<EmptyText>>
             /\ v.visibleContentLines = <<>>
             /\ v.scrollPos = 0
             /\ v.scrollIndicator = EmptyString
             /\ frame = appStyleRender(<<EmptyString, EmptyString, EmptyString>>
                                        \o footerStyleRender(FooterScrollOnly))

\* C10 witness: Tomorrow is empty and selected by the filter, and scroll
\* events have stored a position above 0
C10_Witness ==
    /\ TableShown
    /\ ToLower(m.dayFilter) = Tomorrow
    /\ Len(m.weatherData.Tomorrow) = 0
    /\ m.scrollPos > 0
    /\ ViewTable(m).scrollPos = 0
    /\ ViewTable(m).scrollIndicator = EmptyString

\* the description the mapping is stated to give
StatedDescription(code) ==
    IF code = <<"1","0","0">> THEN <<"Sunny">>
    ELSE IF code = <<"2","0","0">> THEN <<"Cloudy">>
    ELSE IF code = <<"3","0","0">> THEN <<"Rainy">>
    ELSE <<"Unknown">>

\* C11: the weather-code mapping is total: "100" gives "Sunny", "200" gives
\* "Cloudy", "300" gives "Rainy" and every other code, the empty one included,
\* gives "Unknown"; the weather cell of the formatted entry and of the row in
\* the frame is that description.
C11_WeatherCodeMappingTotal ==
    /\ \A code \in SampleCodes : translateWeatherCode(code) = StatedDescription(code)
    /\ TableShown =>
          LET f == frame
              shown == {d \in {"Sunny", "Cloudy", "Rainy", "Unknown"} : Contains(f, d)}
          IN \A i \in 1..Len(m.weatherData.Today) :
                LET entry == m.weatherData.Today[i]
                    cell == formatHourlyData(entry)[2]
                IN /\ cell = StatedDescription(entry.Weather)
                   /\ shown = {cell[1]}

\* C11 witness: a frame whose only row has the empty weather code and shows
\* "Unknown"
C11_Witness ==
    /\ TableShown
    /\ Len(m.weatherData.Today) = 1
    /\ m.weatherData.Today[1].Weather = EmptyString
    /\ Contains(frame, "Unknown")

\* a decimal with exactly one fractional digit
OneFractionalDigit(s) ==
    LET u == IF s # <<>> /\ Head(s) = Minus THEN Tail(s) ELSE s
    IN /\ Len(u) >= 3
       /\ u[Len(u) - 1] = Dot
       /\ IsDigit(u[Len(u)])
       /\ AllDigits(SubSeq(u, 1, Len(u) - 2))

\* a numeric cell as stated: "N/A" for the sentinel, else one fractional digit,
\* and "0.0" when the text handed to the parser is not a number
StatedNumericCell(raw, parsed, cell) ==
    IF raw = Sentinel
    THEN cell = NotAvailable
    ELSE /\ OneFractionalDigit(cell)
         /\ (~ParseOk(parsed) => cell = <<"0", ".", "0">>)

GivenDay(argv) ==
    IF \E i \in 1..(Len(argv) - 1) : argv[i] = DayFlagName
    THEN argv[(CHOOSE i \in 1..(Len(argv) - 1) : argv[i] = DayFlagName) + 1]
    ELSE EmptyString

\* the titles of the day sections among printed lines, in order
RECURSIVE SectionTitles(_)
SectionTitles(lines) ==
    IF lines = <<>> THEN <<>>
    ELSE IF Len(Head(lines)) = 2 /\ Head(lines)[2] = ":"
    THEN <<Head(lines)[1]>> \o SectionTitles(Tail(lines))
    ELSE SectionTitles(Tail(lines))

\* the titles stated for a -day value; none for an invalid value
StatedSections(day) ==
    LET f == ToLower(day)
    IN IF f = EmptyString THEN <<"Yesterday", "Today", "Tomorrow", "Day After Tomorrow">>
       ELSE IF f = Yesterday THEN <<"Yesterday">>
       ELSE IF f = Today THEN <<"Today">>
       ELSE IF f = Tomorrow THEN <<"Tomorrow">>
       ELSE IF f = DayAfter THEN <<"Day After Tomorrow">>
       ELSE <<>>

\* C13 (as claimed): the one-shot program prints all four day sections in the
\* order Yesterday, Today, Tomorrow, Day After Tomorrow when -day is omitted,
\* exactly the one section of a valid -day value in any letter case, and for
\* any other value the invalid-day message and no day section.
C13_OneShotDaySections ==
    proc.pc = "displayed" =>
       LET day == GivenDay(osArgs)
       IN /\ SectionTitles(stdout) = StatedSections(day)
          /\ (StatedSections(day) = <<>>) <=> (\E i \in 1..Len(stdout) : stdout[i] = InvalidDayLine)

HasData(mm) == mm.weatherData # NoWeatherData

\* C14: loading, error and having data are mutually exclusive: loading and
\* error are never both set, forecast data is present only when loading is
\* false and no error is stored, and a failed fetch leaves the forecast empty.
C14_LoadingErrorDataExclusive ==
    /\ ~(m.loading /\ m.err # Nil)
    /\ HasData(m) => (~m.loading /\ m.err = Nil)
    /\ m.err # Nil => (~HasData(m) /\ ~m.loading)
    /\ m.loading => ~HasData(m)

\* C14 witness: the fetch has failed and further messages were handled; the
\* error is stored, loading is off and the forecast is empty
C14_Witness ==
    /\ m.err # Nil
    /\ ~m.loading
    /\ m.weatherData = NoWeatherData
    /\ fetchCmd = "done"
    /\ lastMsg.type = "KeyMsg"

\* C15: the fetch command returned by Init completes once, with a success or a
\* failure; loading is true in every state before that message is handled and
\* false in every state after it, and no message sets loading again or
\* replaces the stored forecast.
C15_SingleFetchCompletion ==
    [][/\ m.loading <=> fetchCmd = "running"
       /\ m'.loading <=> fetchCmd' = "running"
       /\ fetchCmd = "done" => fetchCmd' = "done"
       /\ lastMsg'.type \in {"fetchSuccessMsg", "fetchErrorMsg"} =>
             (fetchCmd = "running" /\ fetchCmd' = "done" /\ m.loading /\ ~m'.loading)
       /\ (m.loading /\ ~m'.loading) =>
             lastMsg'.type \in {"fetchSuccessMsg", "fetchErrorMsg"}
       /\ ~m.loading => (~m'.loading /\ m'.weatherData = m.weatherData)
       /\ (lastMsg'.type = "fetchSuccessMsg") # (lastMsg'.type = "fetchErrorMsg")
             \/ fetchCmd' = fetchCmd]_vars

\* C15 witness: a forecast was delivered and a later message was handled
C15_Witness ==
    /\ fetchCmd = "done"
    /\ ~m.loading
    /\ HasData(m)
    /\ lastMsg.type = "MouseMsg"

\* a quit key is handled now and Update returns tea.Quit
QuitPressed(k) ==
    /\ Dispatch(KeyMsg(k))
    /\ UNCHANGED fetchCmd
    /\ quit'

\* a resize is handled now: the model takes the size and is still loading
ResizedWhileLoading(s) ==
    /\ Dispatch([type |-> "WindowSizeMsg", Width |-> s[1], Height |-> s[2]])
    /\ UNCHANGED fetchCmd
    /\ m'.width = s[1]
    /\ m'.height = s[2]
    /\ m'.loading
    /\ ~quit'

\* C16: while the fetch is pending a quit key still ends the program and a
\* resize still updates the dimensions, neither waiting for the completion
\* message; a quit key is handled in every state of the running program.
C16_ResponsiveWhileLoading ==
    ~quit =>
       /\ \A k \in {"q", "ctrl+c"} : ENABLED QuitPressed(k)
       /\ m.loading => \A s \in TermSizes : ENABLED ResizedWhileLoading(s)

\* C16 witness: the program was resized and then quit while the fetch was
\* still pending
C16_Witness ==
    /\ quit
    /\ m.loading
    /\ fetchCmd = "running"
    /\ m.height # DefaultHeight
    /\ IsKey(lastMsg, {"ctrl+c"})

\* C17: in every table frame the scroll indicator follows the offset View
\* renders with: "More above" exactly when the offset is above 0, "More below"
\* exactly when it is below maxScroll, both joined by " | ", none otherwise.
C17_IndicatorFollowsOffset ==
    TableShown =>
       LET v == ViewTable(m)
           above == v.scrollPos > 0
           below == v.scrollPos < v.maxScroll
       IN /\ Contains(v.out, MoreAbove[1]) <=> above
          /\ Contains(v.out, MoreBelow[1]) <=> below
          /\ Contains(v.out, Separator[1]) <=> (above /\ below)
          /\ v.scrollIndicator =
                (IF above THEN MoreAbove ELSE EmptyString)
                \o (IF above /\ below THEN Separator ELSE EmptyString)
                \o (IF below THEN MoreBelow ELSE EmptyString)
          /\ v.maxScroll = 0 => v.scrollIndicator = EmptyString

\* C17 witness: a frame in the middle of a long day, with both indicators
C17_Witness ==
    /\ TableShown
    /\ ViewTable(m).scrollPos > 0
    /\ ViewTable(m).scrollPos < ViewTable(m).maxScroll
    /\ ViewTable(m).scrollIndicator = MoreAbove \o Separator \o MoreBelow
    /\ Contains(frame, Separator[1])

\* C18 (as claimed): the frame rendered after the "end" key shows the offset
\* maxScroll of the current view, with the last row visible and no "More
\* below", for every row count and terminal height.
C18_EndShowsLastRow ==
    (TableShown /\ IsKey(lastMsg, {"end"})) =>
       LET v == ViewTable(m)
       IN /\ v.scrollPos = v.maxScroll
          /\ Len(m.weatherData.Today) > 0 =>
                /\ v.visibleContentLines # <<>>
                /\ v.visibleContentLines[Len(v.visibleContentLines)]
                      = RenderRow(m.weatherData.Today[Len(m.weatherData.Today)])
          /\ ~Contains(v.out, MoreBelow[1])

\* C19 (as claimed): from every reachable state a wheel-up event yields the
\* same next model as the "up" and "k" keys, and a wheel-down event the same
\* next model as the "down" and "j" keys.
C19_WheelSameAsKeys ==
    ~quit =>
       /\ \A k \in {"up", "k"} :
             Update(m, MouseMsg("MouseButtonWheelUp")) = Update(m, KeyMsg(k))
       /\ \A k \in {"down", "j"} :
             Update(m, MouseMsg("MouseButtonWheelDown")) = Update(m, KeyMsg(k))

\* the message handled by the step scrolls up by one
ScrolledUpOne(tag) ==
    \/ IsKey(tag, {"up", "k"})
    \/ (tag.type = "MouseMsg" /\ tag.arg = "MouseButtonWheelUp")

\* C20 (as claimed): whatever events came before, when the frame displays an
\* offset k above 0, one scroll-up (up, k or wheel up) yields a frame that
\* displays k - 1 and one page-up yields a frame that displays max(0, k - 10).
C20_ScrollUpFromDisplayedOffset ==
    [][((ScrolledUpOne(lastMsg') \/ IsKey(lastMsg', {"pageup"}))
         /\ TableShown /\ ViewTable(m).scrollPos > 0) =>
            LET k == ViewTable(m).scrollPos
                shown == ViewTable(m').scrollPos
            IN IF ScrolledUpOne(lastMsg') THEN shown = k - 1
               ELSE shown = Max(0, k - PageStep)]_vars

\* a stored position brought into [0, bound]
Clamped(p, bound) == IF p < 0 THEN 0 ELSE IF p > bound THEN bound ELSE p

\* C21: a resize sets only the terminal dimensions: scrollPos, currentDay,
\* dayFilter, loading, err and the forecast are unchanged, and the next frame
\* shows the stored position clamped to the maxScroll of the new height.
C21_ResizeSetsOnlyDimensions ==
    /\ [][lastMsg'.type = "WindowSizeMsg" =>
          /\ \E s \in TermSizes : m' = [m EXCEPT !.width = s[1], !.height = s[2]]
          /\ m'.scrollPos = m.scrollPos
          /\ m'.currentDay = m.currentDay
          /\ m'.dayFilter = m.dayFilter
          /\ m'.loading = m.loading
          /\ m'.err = m.err
          /\ m'.weatherData = m.weatherData
          /\ prev' = Scalars(m)]_vars
    /\ []((lastMsg.type = "WindowSizeMsg" /\ TableShown) =>
             ViewTable(m).scrollPos =
                Clamped(prev.scrollPos, StatedMaxScroll(m.height, 1, ActiveRowCount(m))))

\* C21 witness: a resize has left the stored position where it was and the
\* frame of the new height shows a lower offset
C21_Witness ==
    /\ lastMsg.type = "WindowSizeMsg"
    /\ TableShown
    /\ m.scrollPos = prev.scrollPos
    /\ m.scrollPos \in 1..MaxLowScroll
    /\ ViewTable(m).scrollPos < m.scrollPos
    /\ ViewTable(m).scrollPos = StatedMaxScroll(m.height, 1, ActiveRowCount(m))

\* C22: the lower clamp is immediate: after any sequence of scroll and
\* day-navigation events the stored scrollPos is at least 0, and at scrollPos
\* 0 the up keys, the wheel-up event and page-up return the model unchanged.
C22_StoredOffsetNeverNegative ==
    /\ m.scrollPos >= 0
    /\ m.scrollPos = 0 =>
          /\ \A k \in {"up", "k", "pageup"} : Update(m, KeyMsg(k)) = m
          /\ Update(m, MouseMsg("MouseButtonWheelUp")) = m
    /\ (IsKey(lastMsg, {"pageup"}) /\ prev.scrollPos < PageStep) => m.scrollPos = 0
    /\ (IsKey(lastMsg, {"up", "k"}) /\ prev.scrollPos = 0) => m.scrollPos = 0

\* C22 witness: page-up from a position below 10 has stored 0
C22_Witness ==
    /\ IsKey(lastMsg, {"pageup"})
    /\ prev.scrollPos \in 1..(PageStep - 1)
    /\ m.scrollPos = 0

WindowSizeMsg(s) == [type |-> "WindowSizeMsg", Width |-> s[1], Height |-> s[2]]

\* the messages the fetch command can complete with
FetchCompletions ==
    {[type |-> "fetchSuccessMsg", weatherData |-> d] : d \in ForecastSets}
    \cup {[type |-> "fetchErrorMsg", err |-> e] : e \in FetchErrors}

\* C23: while the fetch is pending a resize and the fetch completion commute:
\* handled in either order they give the same model, whose View is the frame; and
\* each is whole after its one Update: the resize has stored both dimensions,
\* the completion has cleared loading and stored its forecast or its error.
C23_ResizeFetchCommute ==
    (fetchCmd = "running" /\ ~quit) =>
       \A s \in TermSizes : \A f \in FetchCompletions :
          LET resized == Update(m, WindowSizeMsg(s))
              fetched == Update(m, f)
              a == Update(resized, f)
              b == Update(fetched, WindowSizeMsg(s))
          IN /\ a = b
             /\ resized.width = s[1] /\ resized.height = s[2]
             /\ resized.loading /\ resized.weatherData = m.weatherData
             /\ ~fetched.loading
             /\ fetched.width = m.width /\ fetched.height = m.height
             /\ IF f.type = "fetchSuccessMsg"
                THEN fetched.weatherData = f.weatherData /\ fetched.err = Nil
                ELSE fetched.err = f.err /\ fetched.weatherData = m.weatherData

\* C23 witness: the forecast arrived and then a resize was handled, and the
\* model is the one that the resize followed by the forecast gives
C23_Witness ==
    /\ fetchCmd = "done"
    /\ lastMsg.type = "WindowSizeMsg"
    /\ HasData(m)
    /\ m.height # DefaultHeight
    /\ \E flag \in DayFlags, s \in TermSizes, d \in ForecastSets :
          m = Update(Update(initialModel(AreaCode, flag), WindowSizeMsg(s)),
                     [type |-> "fetchSuccessMsg", weatherData |-> d])

Min(a, b) == IF a < b THEN a ELSE b

\* the rows of the day the frame is about, with no day filter
ActiveRows(mm) == getDayData(mm, mm.currentDay)[2]

\* a table frame of a non-empty day shows min(visibleHeight, rowCount)
\* consecutive rows from the clamped offset, at least min(3, rowCount), under
\* the day's header block
ShowsWindowOfRows(mm, v) ==
    LET rows == ActiveRows(mm)
        shown == v.visibleContentLines
    IN Len(rows) > 0 =>
          /\ v.startPos = v.scrollPos
          /\ v.scrollPos = Clamped(mm.scrollPos, StatedMaxScroll(mm.height, 1, Len(rows)))
          /\ Len(shown) = Min(StatedVisibleHeight(mm.height, 1), Len(rows))
          /\ Len(shown) >= Min(MinVisibleHeight, Len(rows))
          /\ \A i \in 1..Len(shown) : shown[i] = RenderRow(rows[v.scrollPos + i])
          /\ Len(v.allHeaders) = 1
          /\ v.allHeaders[1] # EmptyText
          /\ Contains(v.out, "dayHeader")
          /\ Contains(v.out, "tableHeader")

\* C24 (as claimed): in every table frame the computed start and end indices
\* satisfy 0 <= start <= end <= rowCount, and a frame of a non-empty day shows
\* min(visibleHeight, rowCount) consecutive rows from the clamped offset, at
\* least min(3, rowCount), with the header block.
C24_SliceWithinRowCount ==
    TableShown =>
       LET v == ViewTable(m)
       IN /\ 0 <= v.startPos
          /\ v.startPos <= v.endIdx
          /\ v.endIdx <= Len(ActiveRows(m))
          /\ ShowsWindowOfRows(m, v)

\* C24 (amended): the indices satisfy 0 <= start <= end <= the number of
\* content lines, which is rowCount for a non-empty day and 1 (one empty line,
\* start 0, end 1, nothing sliced and no row shown) for an empty day; a frame
\* of a non-empty day shows min(visibleHeight, rowCount) consecutive rows from
\* the clamped offset, at least min(3, rowCount), with the header block.
C24_SliceWithinContentLines ==
    TableShown =>
       LET v == ViewTable(m)
           rows == ActiveRows(m)
       IN /\ 0 <= v.startPos
          /\ v.startPos <= v.endIdx
          /\ v.endIdx <= Len(v.contentLines)
          /\ Len(rows) > 0 => (Len(v.contentLines) = Len(rows) /\ v.sliced)
          /\ Len(rows) = 0 =>
                /\ v.contentLines = EmptyText
                /\ v.startPos = 0 /\ v.endIdx = 1
                /\ ~v.sliced
                /\ v.visibleContentLines = <<>>
          /\ ShowsWindowOfRows(m, v)

\* C24 witness: 12 rows in a terminal of height 0, scrolled into the middle:
\* the frame shows the three rows from the offset
C24_Witness ==
    /\ TableShown
    /\ Len(ActiveRows(m)) = 12
    /\ m.height = 0
    /\ ViewTable(m).scrollPos = 5
    /\ ViewTable(m).startPos = 5 /\ ViewTable(m).endIdx = 8
    /\ Len(ViewTable(m).visibleContentLines) = 3

\* the day index a valid day filter names
FilterDayIndex(mm) ==
    LET f == ToLower(mm.dayFilter)
    IN CASE f = Yesterday -> 0
         [] f = Today -> 1
         [] f = Tomorrow -> 2
         [] f = DayAfter -> 3
         [] OTHER -> mm.currentDay

\* the down key's bound is render's bound, and the key does not raise the
\* stored position above it
DownBoundIsRenderBound(mm) ==
    LET bound == ViewTable(mm).maxScroll
        after == Update(mm, KeyMsg("down")).scrollPos
    IN /\ KeyDownMaxScroll(mm) = bound
       /\ Update(mm, KeyMsg("j")) = Update(mm, KeyMsg("down"))
       /\ after = (IF mm.scrollPos < bound THEN mm.scrollPos + 1 ELSE mm.scrollPos)
       /\ after > mm.scrollPos => after <= bound

\* C25 (as claimed): in every state that shows a table the day whose rows the
\* down key consults is the day View displays, the maxScroll the down key
\* computes is View's maxScroll, and a down key never raises the stored
\* scrollPos above View's maxScroll.
C25_DownBoundAgreesWithRender ==
    TableShown =>
       /\ Len(getDayData(m, m.currentDay)[2]) = ActiveRowCount(m)
       /\ DownBoundIsRenderBound(m)

\* C25 (amended): the same in every state that shows a table and whose day
\* filter is empty or valid; with a valid filter currentDay is the filter's
\* day index in every state, and every down-key step raises the stored
\* scrollPos by one exactly when it is below View's maxScroll.
C25_DownBoundAgreesForValidFilter ==
    /\ []((~InvalidFilter(m)) => m.currentDay = FilterDayIndex(m))
    /\ []((TableShown /\ ~InvalidFilter(m)) =>
             /\ Len(getDayData(m, m.currentDay)[2]) = ActiveRowCount(m)
             /\ DownBoundIsRenderBound(m))
    /\ [][(IsKey(lastMsg', {"down", "j"}) /\ ~InvalidFilter(m)) =>
             /\ m' = [m EXCEPT !.scrollPos = m'.scrollPos]
             /\ m'.scrollPos \in {m.scrollPos, m.scrollPos + 1}
             /\ m'.scrollPos > m.scrollPos => m'.scrollPos <= KeyDownMaxScroll(m)]_vars

\* C25 witness: with the filter on tomorrow a down key has raised the stored
\* scrollPos to View's maxScroll
C25_Witness ==
    /\ TableShown
    /\ IsKey(lastMsg, {"down", "j"})
    /\ ToLower(m.dayFilter) = Tomorrow
    /\ m.currentDay = 2
    /\ m.scrollPos = prev.scrollPos + 1
    /\ m.scrollPos = ViewTable(m).maxScroll

====
